---- MODULE Spec2Model ----
(***************************************************************************)
(* N-body simulation step of websims (src/src/sim/simulation.ts) over the  *)
(* vector algebra of src/dist/n-dim-vector.js.                             *)
(*                                                                         *)
(* Numbers.  A JavaScript number is modelled as an exact rational <<n, d>> *)
(* in lowest terms with d > 0, extended with the three non-finite values   *)
(* the language produces: <<1, 0>> (Infinity), <<-1, 0>> (-Infinity) and   *)
(* <<0, 0>> (NaN).  Rounding of IEEE doubles and the sign of zero are not  *)
(* modelled.  Math.sqrt is exact on the squares of rationals, and a tick   *)
(* is only started from worlds in which it is applied to such squares      *)
(* (see CanAdvance).                                                       *)
(***************************************************************************)
EXTENDS Integers, Sequences, FiniteSets, TLC

\* ------------------------------------------------------------------ bounds
MaxBodies == 4      \* bodies handed to addBody before the first advance
MaxCoord == 1       \* x coordinates of added bodies are 0..MaxCoord
MaxInputMass == 2   \* masses of added bodies are 1..MaxInputMass
MaxTicks == 2       \* advances (updatePhysics calls) per run
MaxComp == 2        \* vector components and scalars of the div exercise

\* ------------------------------------------------------ program constants
DISTANCE_SCALE == 6500
DISTANCE_MIN == 1
COLLISION_FACTOR == 400
dimensions == 2

\* ----------------------------------------------------------------- numbers
Abs(n) == IF n < 0 THEN -n ELSE n

Sign(n) == IF n < 0 THEN -1 ELSE IF n > 0 THEN 1 ELSE 0

RECURSIVE Gcd(_, _)
Gcd(a, b) == IF b = 0 THEN a ELSE Gcd(b, a % b)

NaN == <<0, 0>>

PosInf == <<1, 0>>

NegInf == <<-1, 0>>

Zero == <<0, 1>>

I(n) == <<n, 1>>

IsNaN(a) == a = NaN

IsFinite(a) == a[2] # 0

IsZero(a) == a[2] # 0 /\ a[1] = 0

\* n / d in lowest terms with a positive denominator
Norm(n, d) ==
    IF d = 0
    THEN <<Sign(n), 0>>
    ELSE LET g == Gcd(Abs(n), Abs(d))
             s == IF d < 0 THEN -1 ELSE 1
         IN  <<(s * n) \div g, Abs(d) \div g>>

\* a + b
NAdd(a, b) ==
    IF a[2] # 0 /\ b[2] # 0
    THEN IF a[2] = b[2]
         THEN (IF a[2] = 1 THEN <<a[1] + b[1], 1>>
                           ELSE Norm(a[1] + b[1], a[2]))
         ELSE LET g == Gcd(a[2], b[2])
              IN  Norm(a[1] * (b[2] \div g) + b[1] * (a[2] \div g),
                       (a[2] \div g) * b[2])
    ELSE IF IsNaN(a) \/ IsNaN(b) THEN NaN
    ELSE IF a[2] = 0 /\ b[2] = 0 THEN (IF a = b THEN a ELSE NaN)
    ELSE IF a[2] = 0 THEN a
    ELSE b

NNeg(a) == <<-a[1], a[2]>>

\* a - b
NSub(a, b) == NAdd(a, NNeg(b))

\* a * b
NMul(a, b) ==
    IF a[2] # 0 /\ b[2] # 0
    THEN IF a[1] = 0 \/ b[1] = 0 THEN Zero
         ELSE IF a[2] = 1 /\ b[2] = 1 THEN <<a[1] * b[1], 1>>
         ELSE LET g1 == Gcd(Abs(a[1]), b[2])
                  g2 == Gcd(Abs(b[1]), a[2])
              IN  <<(a[1] \div g1) * (b[1] \div g2),
                    (a[2] \div g2) * (b[2] \div g1)>>
    ELSE IF IsNaN(a) \/ IsNaN(b) THEN NaN
    ELSE IF IsZero(a) \/ IsZero(b) THEN NaN
    ELSE <<Sign(a[1]) * Sign(b[1]), 0>>

\* a / b
NDiv(a, b) ==
    IF a[2] # 0 /\ b[2] # 0 /\ b[1] # 0
    THEN NMul(a, IF b[1] < 0 THEN <<-b[2], -b[1]>> ELSE <<b[2], b[1]>>)
    ELSE IF IsNaN(a) \/ IsNaN(b) THEN NaN
    ELSE IF a[2] = 0
         THEN (IF b[2] = 0 THEN NaN
               ELSE <<a[1] * (IF b[1] < 0 THEN -1 ELSE 1), 0>>)
    ELSE IF b[2] = 0 THEN Zero
    ELSE IF a[1] = 0 THEN NaN
    ELSE <<Sign(a[1]), 0>>

\* a < b  (every comparison with NaN is false)
NLt(a, b) ==
    IF a[2] # 0 /\ b[2] # 0 THEN a[1] * b[2] < b[1] * a[2]
    ELSE IF IsNaN(a) \/ IsNaN(b) THEN FALSE
    ELSE IF a = b THEN FALSE
    ELSE a = NegInf \/ b = PosInf

RECURSIVE IsqrtFrom(_, _)
IsqrtFrom(n, k) == IF (k + 1) * (k + 1) > n THEN k ELSE IsqrtFrom(n, k + 1)

Isqrt(n) == IsqrtFrom(n, 0)

IsSquare(a) ==
    /\ IsFinite(a)
    /\ a[1] >= 0
    /\ Isqrt(a[1]) * Isqrt(a[1]) = a[1]
    /\ Isqrt(a[2]) * Isqrt(a[2]) = a[2]

\* Math.sqrt
NSqrt(a) ==
    IF IsNaN(a) \/ a[1] < 0 THEN NaN
    ELSE IF ~IsFinite(a) THEN PosInf
    ELSE <<Isqrt(a[1]), Isqrt(a[2])>>

\* ----------------------------------------------------------------- vectors
\* zipWith applies the function to the components at equal indices
RECURSIVE zipAdd(_, _, _)
zipAdd(a, b, k) ==
    IF k = 0 THEN <<>> ELSE Append(zipAdd(a, b, k - 1), NAdd(a[k], b[k]))

RECURSIVE zipSub(_, _, _)
zipSub(a, b, k) ==
    IF k = 0 THEN <<>> ELSE Append(zipSub(a, b, k - 1), NSub(a[k], b[k]))

RECURSIVE mapMul(_, _, _)
mapMul(vector, scalar, k) ==
    IF k = 0 THEN <<>>
    ELSE Append(mapMul(vector, scalar, k - 1), NMul(vector[k], scalar))

RECURSIVE mapDiv(_, _, _)
mapDiv(vector, scalar, k) ==
    IF k = 0 THEN <<>>
    ELSE Append(mapDiv(vector, scalar, k - 1), NDiv(vector[k], scalar))

add(augend, addend) == zipAdd(augend, addend, Len(augend))

sub(minuend, subtrahend) == zipSub(minuend, subtrahend, Len(minuend))

mul(vector, scalar) == mapMul(vector, scalar, Len(vector))

\* the console.error call of div
divLogs(scalar) == IsZero(scalar)

div(vector, scalar) == mapDiv(vector, scalar, Len(vector))

RECURSIVE SumSquares(_, _)
SumSquares(vector, k) ==
    IF k = 0 THEN Zero
    ELSE NAdd(SumSquares(vector, k - 1), NMul(vector[k], vector[k]))

magnitudeSquared(vector) == SumSquares(vector, Len(vector))

magnitude(vector) == NSqrt(magnitudeSquared(vector))

RECURSIVE Fill(_, _)
Fill(length, value) ==
    IF length = 0 THEN <<>> ELSE Append(Fill(length - 1, value), value)

zeroVector == Fill(dimensions, Zero)

\* NDimVector.div: the outcome of one call, as its caller observes it.  The
\* method has no throw statement: it always returns a vector.
NDimVectorDiv(vector, scalar) ==
    [error  |-> "none",
     logged |-> divLogs(scalar),
     value  |-> div(vector, scalar)]

\* ------------------------------------------------------------ MassiveBody
\* The body type lives in kinetic-body.js; its constructor, integrate, eq and
\* nCollisionMomentum follow the design document.
MAX_MASS == 6

RadiusPerMass == 5

timeStepSec == <<1, 10>>

\* radius: a monotonic function of the mass
Radius(m) == NMul(I(RadiusPerMass), m)

ClampMass(m) == IF NLt(I(MAX_MASS), m) THEN I(MAX_MASS) ELSE m

MassiveBody(id, m, pos, vel, isStatic) ==
    [id       |-> id,
     pos      |-> pos,
     vel      |-> vel,
     acc      |-> zeroVector,
     m        |-> ClampMass(m),
     r        |-> Radius(ClampMass(m)),
     isStatic |-> isStatic]

\* b.eq(other): bodies are identified by their id
eq(b, other) == b = other

\* explicit Euler step of one body; a static body is left alone
integrate(b, dt) ==
    IF b.isStatic THEN b
    ELSE LET v == add(b.vel, mul(b.acc, dt))
         IN  [b EXCEPT !.vel = v,
                       !.pos = add(b.pos, mul(v, dt)),
                       !.acc = zeroVector]

RECURSIVE SumMass(_, _)
SumMass(members, k) ==
    IF k = 0 THEN Zero ELSE NAdd(SumMass(members, k - 1), members[k].m)

RECURSIVE SumMomentum(_, _)
SumMomentum(members, k) ==
    IF k = 0 THEN zeroVector
    ELSE add(SumMomentum(members, k - 1), mul(members[k].vel, members[k].m))

\* MassiveBody.nCollisionMomentum: sum(m_i * vel_i) / sum(m_i)
nCollisionMomentum(members) ==
    div(SumMomentum(members, Len(members)), SumMass(members, Len(members)))

\* ------------------------------------------------------------------ state
VARIABLES
    bodies,       \* the live body map, in insertion order
    nextId,       \* the id the next constructed body gets
    pc,           \* position inside updatePhysics: idle, merge, integrate
    ticks,        \* completed updatePhysics calls
    collisions,   \* this tick's collision groups: sequences of body ids
    collidedIds,  \* this tick's collidedIds array
    pre,          \* the live bodies when this tick started
    evaluated,    \* the pairs <<id1, id2>> the pair loop visited, in order
    forces,       \* one record per pair that took the force branch
    objs,         \* the body objects as the pair loop left them
    created,      \* ids of the bodies handleCollisions inserted
    integrated,   \* ids of the bodies updateDerivatives integrated
    lastDiv       \* the last NDimVector.div call and its outcome

vars == <<bodies, nextId, pc, ticks, collisions, collidedIds, pre, evaluated,
          forces, objs, created, integrated, lastDiv>>

tickVars == <<bodies, nextId, pc, ticks, collisions, collidedIds, pre,
              evaluated, forces, objs, created, integrated>>

NoDiv == [vector |-> zeroVector, scalar |-> I(1),
          outcome |-> NDimVectorDiv(zeroVector, I(1))]

Init ==
    /\ bodies = <<>>
    /\ nextId = 1
    /\ pc = "idle"
    /\ ticks = 0
    /\ collisions = <<>>
    /\ collidedIds = <<>>
    /\ pre = <<>>
    /\ evaluated = <<>>
    /\ forces = <<>>
    /\ objs = <<>>
    /\ created = <<>>
    /\ integrated = <<>>
    /\ lastDiv = NoDiv

Ids(bs) == {bs[k].id : k \in 1..Len(bs)}

\* the body with the given id among a sequence of bodies
Obj(bs, id) == bs[CHOOSE k \in 1..Len(bs) : bs[k].id = id]

includes(coll, b) == \E n \in 1..Len(coll) : coll[n] = b

\* ---------------------------------------------------------------- addBody
\* A body as the constructor of Simulation builds it: velocity (pos[1],
\* -pos[0]).  The static body, when there is one, is added first.
AddBody(x, m, isStatic) ==
    /\ pc = "idle"
    /\ ticks = 0
    /\ Len(bodies) < MaxBodies
    /\ isStatic => bodies = <<>>
    /\ LET pos == <<I(x), Zero>>
           vel == <<pos[2], NNeg(pos[1])>>
       IN  bodies' = Append(bodies, MassiveBody(nextId, I(m), pos, vel, isStatic))
    /\ nextId' = nextId + 1
    /\ UNCHANGED <<pc, ticks, collisions, collidedIds, pre, evaluated, forces,
                   objs, created, integrated, lastDiv>>

\* ---------------------------------------------------- updateAcceleration2
\* Collides with a lower cut-off: distances under DISTANCE_MIN do not collide
CollidesAboveMin(b1, b2, distance) ==
    /\ ~NLt(distance, I(DISTANCE_MIN))
    /\ NLt(distance, NMul(NAdd(b1.r, b2.r), I(COLLISION_FACTOR)))

\* the collision test of one pair
Collides(b1, b2, distance) ==
    NLt(distance, NMul(NAdd(b1.r, b2.r), I(COLLISION_FACTOR)))

RECURSIVE getCollisionWithFrom(_, _, _, _)
getCollisionWithFrom(colls, b1, b2, k) ==
    IF k > Len(colls) THEN 0
    ELSE IF \E n \in 1..Len(colls[k]) :
                eq(colls[k][n], b1) \/ eq(colls[k][n], b2)
         THEN k
    ELSE getCollisionWithFrom(colls, b1, b2, k + 1)

\* the index of the first group holding b1 or b2; 0 stands for null
getCollisionWith(colls, b1, b2) == getCollisionWithFrom(colls, b1, b2, 1)

\* the collision branch: the pair joins the group found, or starts one
RecordCollision(colls, b1, b2) ==
    LET coll == getCollisionWith(colls, b1, b2)
    IN  IF coll # 0
        THEN IF includes(colls[coll], b1)
             THEN [colls EXCEPT ![coll] = Append(@, b2)]
             ELSE IF includes(colls[coll], b2)
                  THEN [colls EXCEPT ![coll] = Append(@, b1)]
                  ELSE colls
        ELSE Append(colls, <<b1, b2>>)

AccFactor(r, distanceSquared, distance) ==
    div(r, NMul(distanceSquared, distance))

dAcc1(accFactor, b1, b2) == mul(accFactor, b2.m)

\* dAcc2 scaled by the mass of the body it is applied to
dAcc2OwnMass(accFactor, b1, b2) == mul(accFactor, b2.m)

dAcc2(accFactor, b1, b2) == mul(accFactor, b1.m)

\* AccelerateB1 without the isStatic test
AccelerateB1Always(b1, b2, accFactor) ==
    [b1 EXCEPT !.acc = add(b1.acc, dAcc1(accFactor, b1, b2))]

AccelerateB1(b1, b2, accFactor) ==
    IF ~b1.isStatic
    THEN [b1 EXCEPT !.acc = add(b1.acc, dAcc1(accFactor, b1, b2))]
    ELSE b1

AccelerateB2(b1, b2, accFactor) ==
    IF ~b2.isStatic
    THEN [b2 EXCEPT !.acc = sub(b2.acc, dAcc2(accFactor, b1, b2))]
    ELSE b2

\* the body of the inner loop for the keys at positions i < j
PairBody(st, i, j) ==
    LET b1 == st.bs[i]
        b2 == st.bs[j]
        r == sub(b2.pos, b1.pos)
        distance == NMul(magnitude(r), I(DISTANCE_SCALE))
        distanceSquared == magnitudeSquared(r)
        seen == Append(st.evaluated, <<b1.id, b2.id>>)
    IN  IF Collides(b1, b2, distance)
        THEN [st EXCEPT
                !.collisions = RecordCollision(st.collisions, b1.id, b2.id),
                !.collidedIds = st.collidedIds \o <<b1.id, b2.id>>,
                !.evaluated = seen]
        ELSE LET accFactor == AccFactor(r, distanceSquared, distance)
                 n1 == AccelerateB1(b1, b2, accFactor)
                 n2 == AccelerateB2(b1, b2, accFactor)
             IN  [st EXCEPT
                    !.bs = [st.bs EXCEPT ![i] = n1, ![j] = n2],
                    !.evaluated = seen,
                    !.forces = Append(st.forces,
                        [b1 |-> b1.id, b2 |-> b2.id,
                         m1 |-> b1.m, m2 |-> b2.m,
                         static1 |-> b1.isStatic, static2 |-> b2.isStatic,
                         r |-> r,
                         divisor |-> NMul(distanceSquared, distance),
                         accFactor |-> accFactor,
                         dAcc1 |-> sub(n1.acc, b1.acc),
                         dAcc2 |-> sub(n2.acc, b2.acc)])]

\* for i in 0..n-1, for j in i+1..n-1 (positions counted from 1 here)
RECURSIVE PairLoop(_, _, _)
PairLoop(st, i, j) ==
    IF i > Len(st.bs) THEN st
    ELSE IF j > Len(st.bs) THEN PairLoop(st, i + 1, i + 2)
    ELSE PairLoop(PairBody(st, i, j), i, j + 1)

IsInteger(a) == a[2] = 1

\* The worlds a tick is started from: those whose arithmetic the model
\* carries out exactly (integer coordinates, rational distances).
CanAdvance ==
    /\ ticks < MaxTicks
    /\ \A k \in 1..Len(bodies) : \A c \in 1..dimensions :
          IsInteger(bodies[k].pos[c]) /\ IsInteger(bodies[k].vel[c])
    /\ \A k \in 1..Len(bodies) : \A l \in (k + 1)..Len(bodies) :
          IsSquare(magnitudeSquared(sub(bodies[l].pos, bodies[k].pos)))

\* updatePhysics, first part: the pair loop of updateAcceleration2
UpdateAcceleration2 ==
    /\ pc = "idle"
    /\ CanAdvance
    /\ \E st \in {PairLoop([bs |-> bodies, collisions |-> <<>>,
                            collidedIds |-> <<>>, evaluated |-> <<>>,
                            forces |-> <<>>], 1, 2)} :
           /\ bodies' = st.bs
           /\ objs' = st.bs
           /\ collisions' = st.collisions
           /\ collidedIds' = st.collidedIds
           /\ evaluated' = st.evaluated
           /\ forces' = st.forces
           /\ pc' = IF Len(st.collisions) # 0 THEN "merge" ELSE "integrate"
    /\ pre' = bodies
    /\ created' = <<>>
    /\ integrated' = <<>>
    /\ UNCHANGED <<nextId, ticks, lastDiv>>

\* ------------------------------------------------------- handleCollisions
RECURSIVE Moment(_, _)
Moment(members, k) ==
    IF k = 1 THEN mul(members[1].pos, members[1].m)
    ELSE add(Moment(members, k - 1), mul(members[k].pos, members[k].m))

centerOfMass(members) ==
    IF Len(members) = 0 THEN zeroVector
    ELSE IF Len(members) = 1 THEN members[1].pos
    ELSE div(Moment(members, Len(members)), SumMass(members, Len(members)))

\* DeleteMembers that deletes only the pair the group was started with
DeleteFirstPair(bs, coll) ==
    SelectSeq(bs, LAMBDA b : b.id # coll[1] /\ b.id # coll[2])

\* bodies.delete(b.id) for every b of the group
DeleteMembers(bs, coll) == SelectSeq(bs, LAMBDA b : ~includes(coll, b.id))

\* one iteration of the loop over the collision lists
MergeGroup(st, coll) ==
    LET members == [n \in 1..Len(coll) |-> Obj(objs, coll[n])]
        isStatic == \E n \in 1..Len(members) : members[n].isStatic
        mass == SumMass(members, Len(members))
        newBody == MassiveBody(st.nextId, mass,
                       IF isStatic THEN zeroVector ELSE centerOfMass(members),
                       IF isStatic THEN zeroVector
                                   ELSE nCollisionMomentum(members),
                       isStatic)
    IN  [bs |-> Append(DeleteMembers(st.bs, coll), newBody),
         nextId |-> st.nextId + 1,
         created |-> Append(st.created, newBody.id)]

RECURSIVE MergeLoop(_, _)
MergeLoop(st, k) ==
    IF k > Len(collisions) THEN st
    ELSE MergeLoop(MergeGroup(st, collisions[k]), k + 1)

\* updatePhysics, second part: handleCollisions, run when a group exists
HandleCollisions ==
    /\ pc = "merge"
    /\ \E st \in {MergeLoop([bs |-> bodies, nextId |-> nextId,
                             created |-> <<>>], 1)} :
           /\ bodies' = st.bs
           /\ nextId' = st.nextId
           /\ created' = st.created
    /\ pc' = "integrate"
    /\ UNCHANGED <<ticks, collisions, collidedIds, pre, evaluated, forces,
                   objs, integrated, lastDiv>>

\* ------------------------------------------------------ updateDerivatives
\* DerivativeTargets walking the bodies of the start of the tick
DerivativeTargetsStale(live, before) == before

\* the bodies the loop of updateDerivatives walks
DerivativeTargets(live, before) == live

\* updatePhysics, last part: every live body integrates over timeStepSec
UpdateDerivatives ==
    /\ pc = "integrate"
    /\ LET targets == DerivativeTargets(bodies, pre)
       IN  /\ bodies' = [k \in 1..Len(bodies) |->
                           IF bodies[k].id \in Ids(targets)
                           THEN integrate(bodies[k], timeStepSec)
                           ELSE bodies[k]]
           /\ integrated' = [k \in 1..Len(targets) |-> targets[k].id]
    /\ pc' = "idle"
    /\ ticks' = ticks + 1
    /\ UNCHANGED <<nextId, collisions, collidedIds, pre, evaluated, forces,
                   objs, created, lastDiv>>

\* ------------------------------------------------- the vector div exercise
Comps == {I(n) : n \in -MaxComp..MaxComp}

VectorDiv(x, y, scalar) ==
    /\ lastDiv' = [vector |-> <<x, y>>, scalar |-> scalar,
                   outcome |-> NDimVectorDiv(<<x, y>>, scalar)]
    /\ UNCHANGED tickVars

\* ---------------------------------------------------------- specifications
Next ==
    \/ \E x \in 0..MaxCoord, m \in 1..MaxInputMass, isStatic \in BOOLEAN :
          AddBody(x, m, isStatic)
    \/ UpdateAcceleration2
    \/ HandleCollisions
    \/ UpdateDerivatives

Spec == Init /\ [][Next]_vars

NextVector == \E x \in Comps, y \in Comps, scalar \in Comps : VectorDiv(x, y, scalar)

SpecVector == Init /\ [][NextVector]_vars

\* ----------------------------------------------------------------- claims
Flagged == {collidedIds[k] : k \in 1..Len(collidedIds)}

Members(coll) == {coll[n] : n \in 1..Len(coll)}

Range(seq) == {seq[k] : k \in 1..Len(seq)}

\* handleCollisions has run in the current or last tick
MergeDone == pc # "merge" /\ Len(collisions) # 0

\* a tick has run to its end
TickDone == pc = "idle" /\ ticks > 0

TotalMass(bs) == SumMass(bs, Len(bs))

Occurrences(id) ==
    Cardinality(UNION {{<<k, n>> : n \in {m \in 1..Len(collisions[k]) :
                                            collisions[k][m] = id}} :
                       k \in 1..Len(collisions)})

\* the colliding pairs of the tick, as the pair loop flagged them
CollidingPairs ==
    {<<collidedIds[2 * k - 1], collidedIds[2 * k]>> :
        k \in 1..(Len(collidedIds) \div 2)}

Neighbours(S) ==
    S \cup {p[2] : p \in {q \in CollidingPairs : q[1] \in S}}
      \cup {p[1] : p \in {q \in CollidingPairs : q[2] \in S}}

RECURSIVE Reach(_)
Reach(S) == IF Neighbours(S) = S THEN S ELSE Reach(Neighbours(S))

\* the sets of bodies connected through chains of colliding pairs
ConnectedSets == {Reach({id}) : id \in Flagged}

\* C1: when no group holds a static body and no group's summed mass reaches
\* the clamp, the live bodies weigh after the merge what they weighed when
\* the tick started.
C1_MassConserved ==
    (/\ MergeDone
     /\ \A k \in 1..Len(collisions) : \A n \in 1..Len(collisions[k]) :
           ~Obj(objs, collisions[k][n]).isStatic
     /\ \A k \in 1..Len(collisions) :
           NLt(SumMass([n \in 1..Len(collisions[k]) |->
                           Obj(objs, collisions[k][n])], Len(collisions[k])),
               I(MAX_MASS)))
    => TotalMass(bodies) = TotalMass(pre)

\* C2: after handleCollisions every member of every group is gone from the
\* live map, one body per group was inserted under an id no body had when the
\* tick started, and no flagged id is still a key.
C2_MembersReplaced ==
    MergeDone =>
        /\ \A id \in Flagged : id \notin Ids(bodies)
        /\ \A k \in 1..Len(collisions) :
              Members(collisions[k]) \cap Ids(bodies) = {}
        /\ Len(created) = Len(collisions)
        /\ Cardinality(Range(created)) = Len(created)
        /\ Range(created) \cap Ids(pre) = {}
        /\ Ids(bodies) = (Ids(pre) \ Flagged) \cup Range(created)
        /\ Len(bodies) = Cardinality(Ids(bodies))

C2_Witness ==
    /\ TickDone
    /\ Len(collisions) = 2
    /\ \E k \in 1..Len(collisions) : Len(collisions[k]) >= 3

\* C3: every body occurs at most once across the collision groups of a tick.
C3_OneOccurrence == \A id \in Ids(pre) : Occurrences(id) <= 1

\* C4: every set of bodies connected through colliding pairs is replaced by
\* one body: the merge inserts as many bodies as there are connected sets.
C4_OneBodyPerConnectedSet ==
    MergeDone => Len(created) = Cardinality(ConnectedSets)

\* C5 as stated: wherever a static body was when the tick started, a static
\* body with that position and velocity is live throughout and after it.
C5_StaticStaysPut ==
    \A k \in 1..Len(pre) :
        pre[k].isStatic =>
            \E l \in 1..Len(bodies) :
                /\ bodies[l].isStatic
                /\ bodies[l].pos = pre[k].pos
                /\ bodies[l].vel = pre[k].vel

\* C5 amended: a static body that is in no collision group of the tick keeps
\* its position, its velocity and its accumulated acceleration; one that is
\* in a group stays as it was until the merge, which removes it and leaves a
\* static product at the origin with zero velocity.
C5_StaticFixedUnlessMerged ==
    \A k \in 1..Len(pre) :
        pre[k].isStatic =>
            IF pre[k].id \in Flagged /\ MergeDone
            THEN /\ pre[k].id \notin Ids(bodies)
                 /\ \E l \in 1..Len(bodies) :
                       /\ bodies[l].id \in Range(created)
                       /\ bodies[l].isStatic
                       /\ bodies[l].pos = zeroVector
                       /\ bodies[l].vel = zeroVector
            ELSE \E l \in 1..Len(bodies) : bodies[l] = pre[k]

C5_Witness ==
    /\ TickDone
    /\ \E k \in 1..Len(pre) :
          /\ pre[k].isStatic
          /\ pre[k].id \notin Flagged
          /\ pre[k].pos # zeroVector
          /\ pre[k].vel # zeroVector
          /\ \E n \in 1..Len(forces) :
                forces[n].b1 = pre[k].id /\ ~forces[n].static2

C7_UnscaledFactor ==
    \A n \in 1..Len(forces) :
        forces[n].accFactor
            = div(forces[n].r,
                  NMul(magnitudeSquared(forces[n].r), magnitude(forces[n].r)))

\* C8: div by the scalar 0 ends in a DivideByZero error and yields no vector
\* with infinite or NaN components.
C8_DivByZeroFails ==
    IsZero(lastDiv.scalar) =>
        /\ lastDiv.outcome.error = "DivideByZero"
        /\ \A c \in 1..Len(lastDiv.outcome.value) :
              IsFinite(lastDiv.outcome.value[c])

\* C9: nothing is integrated or merged before the pair loop has ended, nothing
\* is integrated before the merge, and the integration walks exactly the live
\* set the merge left: no absorbed body, every merge product.
C9_PhaseOrder ==
    /\ pc = "merge" => (created = <<>> /\ integrated = <<>>)
    /\ pc = "integrate" =>
          (integrated = <<>> /\ Len(created) = Len(collisions))
    /\ TickDone =>
          /\ Range(integrated) = Ids(bodies)
          /\ Range(integrated) \cap Flagged = {}
          /\ Range(created) \subseteq Range(integrated)

C9_Witness ==
    /\ TickDone
    /\ Len(created) >= 1
    /\ Flagged # {}
    /\ Ids(pre) \ Flagged # {}
    /\ \E l \in 1..Len(bodies) :
          /\ bodies[l].id \in Range(created)
          /\ ~bodies[l].isStatic
          /\ bodies[l].pos # Obj(objs, collisions[1][1]).pos

\* C10: the divisor handed to div in the force branch is never zero, and a
\* pair of coincident bodies never takes the force branch.
C10_NoZeroDivisor ==
    /\ \A n \in 1..Len(forces) :
          IsFinite(forces[n].divisor) /\ ~IsZero(forces[n].divisor)
    /\ \A n \in 1..Len(forces) : forces[n].r # zeroVector

C10_Witness ==
    /\ Len(forces) >= 1
    /\ \E n \in 1..Len(evaluated) :
          /\ Obj(pre, evaluated[n][1]).pos = Obj(pre, evaluated[n][2]).pos
          /\ evaluated[n][1] \in Flagged
          /\ evaluated[n][2] \in Flagged

====
